---- MODULE Spec2Model ----
(***************************************************************************)
(* Model of prototype.py: a work list is mapped over an MPIPoolExecutor.   *)
(* The main process submits every work item, leaves the `with` block       *)
(* (which shuts the pool down and waits for the tasks), and then builds    *)
(* the list of results from the iterator executor.map returned.  Workers   *)
(* are separate processes: a task's argument and its result travel as      *)
(* pickled messages.                                                       *)
(***************************************************************************)
EXTENDS Integers, Sequences, FiniteSets, TLC

\* ---------------------------------------------------------------- bounds
MaxItems == 3
MaxWorkers == 2

\* `#SBATCH --nodes=2`: the docstring's run spreads the ranks over two nodes
Nodes == 2

\* ------------------------------------------------------- data of the code

\* sample of parse_ref_setup: the three dict objects the work list is drawn
\* from (random.sample with counts repeats the SAME object), plus a work
\* definition naming an engine that ENGINES does not hold
sample ==
  [o \in 1..4 |->
     CASE o = 1 -> [engine |-> "PMP", benchmark |-> "AMOC"]
       [] o = 2 -> [engine |-> "ESMValTool", benchmark |-> "TCRE"]
       [] o = 3 -> [engine |-> "ILAMB", benchmark |-> "nbp"]
       [] o = 4 -> [engine |-> "UNKNOWN", benchmark |-> "x"]]

ObjectIds == DOMAIN sample

\* ENGINES = {"ILAMB": engine_ilamb, "PMP": engine_pmp, "ESMValTool": engine_esmvaltool}
ENGINES ==
  [e \in {"ILAMB", "PMP", "ESMValTool"} |->
     CASE e = "ILAMB" -> "engine_ilamb"
       [] e = "PMP" -> "engine_pmp"
       [] e = "ESMValTool" -> "engine_esmvaltool"]

EngineFunctions == {ENGINES[e] : e \in DOMAIN ENGINES}

\* variant: the dict is replaced by `other` instead of merged with it
update_replacing(d, other) == other

\* dict.update(other)
update(d, other) ==
  [k \in DOMAIN d \cup DOMAIN other |-> IF k \in DOMAIN other THEN other[k] ELSE d[k]]

\* engine_ilamb / engine_esmvaltool / engine_pmp: sleep, then return
\* "_results_".  The bodies stand in for the run of an external package
\* ("Run the benchmark"); `faults` names the functions whose run raises
\* instead of returning.  It is empty for the engines as they are written.
engine_call(fn, benchmark, faults) ==
  IF fn \in faults
    THEN [kind |-> "exception", exc |-> "EngineFault", value |-> "none"]
    ELSE [kind |-> "result", exc |-> "none", value |-> "_results_"]

\* MPI.Get_processor_name() of the worker of this rank (ranks are spread
\* cyclically over the nodes)
Get_processor_name(rank) == rank % Nodes

\* variant: the line reports the rank in COMM_WORLD, where the main process
\* is rank 0 and the workers follow it
trace_line_world_rank(instructions, rank, size) ==
  [benchmark |-> instructions["benchmark"], engine |-> instructions["engine"],
   rank |-> rank + 1, size |-> size, name |-> Get_processor_name(rank)]

\* the line perform_work writes with tqdm.write before it looks the engine up
trace_line(instructions, rank, size) ==
  [benchmark |-> instructions["benchmark"], engine |-> instructions["engine"],
   rank |-> rank, size |-> size, name |-> Get_processor_name(rank)]

\* the module-level dict bound to the name ENGINES, as the run finds it
VARIABLE engines

\* variant: a dict that inserts a default on a missing key (a defaultdict)
engines_with_default(reg, key) ==
  [k \in DOMAIN reg \cup {key} |-> IF k \in DOMAIN reg THEN reg[k] ELSE "none"]

\* ENGINES[key]: a subscript reads the dict and leaves it as it is, whether
\* the key is found or not
engines_after_lookup(reg, key) == reg

\* variant: the line is written after the engine has returned
trace_after_engine(tr, line, outcome) ==
  IF outcome.kind = "exception" THEN tr ELSE Append(tr, line)

\* tqdm.write(...) is the first statement after the process information is
\* read: the line is out before the engine is looked up or called, whatever
\* the outcome of the task
trace_after_task(tr, line, outcome) == Append(tr, line)

\* perform_work(instructions) on the worker of this rank: the outcome sent
\* back to the main process (a returned dict or a raised exception)
perform_work(instructions, faults) ==
  IF instructions["engine"] \notin DOMAIN engines
    THEN [kind |-> "exception", exc |-> "KeyError", value |-> "none"]
    ELSE LET out == engine_call(engines[instructions["engine"]],
                                instructions["benchmark"], faults)
         IN IF out.kind = "exception"
              THEN out
              ELSE [kind |-> "result", exc |-> "none",
                    value |-> update(instructions, [output |-> out.value])]

\* ------------------------------------------------------------------ state

VARIABLES
  work_list,   \* the caller's list: references to the caller's dict objects
  objects,     \* the caller's dict objects (main process memory)
  faults,      \* the engine functions whose external run faults in this run
  size,        \* number of workers of the pool (comm.Get_size() on a worker)
  pc,          \* position of the main process
  futures,     \* one future per submitted item, in submission order, with
               \* the worker the pool sent its task to
  queue,       \* the pool's queue of tasks not yet sent to a worker
  running,     \* per worker rank: the tasks it has received and not finished
  trace,       \* the lines written by tqdm.write, in order
  completed,   \* the tasks in the order their outcomes reached the main process
  popped,      \* how many futures the result iterator has popped
  results,     \* the list list(results) is building
  origin,      \* per element of results: the task whose future it came from
  n,           \* tqdm's counter of items iterated
  raised       \* the exception that left the main program, if any

vars == <<engines, work_list, objects, faults, size, pc, futures, queue, running,
          trace, completed, popped, results, origin, n, raised>>

Ranks == 0..(size - 1)

Tasks == 1..Len(futures)

NoOutcome == [kind |-> "none", exc |-> "none", value |-> "none"]

\* parse_ref_setup: a list of references to the sample's objects
parse_ref_setup == UNION {[1..k -> ObjectIds] : k \in 0..MaxItems}

\* variant: every task is bound to the last element of the list
task_argument_late_bound(objs, wl, i) == objs[wl[Len(wl)]]

\* the argument of the i-th submitted task: pickle.dumps of the i-th element
\* of the list, so the message carries the dict's content at submission, not
\* the caller's object
task_argument(objs, wl, i) == objs[wl[i]]

InitWith(failing) ==
  /\ engines = ENGINES
  /\ work_list \in parse_ref_setup
  /\ objects = sample
  /\ faults \in failing
  /\ size \in 1..MaxWorkers
  /\ pc = "main"
  /\ futures = <<>>
  /\ queue = <<>>
  /\ running = [w \in Ranks |-> {}]
  /\ trace = <<>>
  /\ completed = <<>>
  /\ popped = 0
  /\ results = <<>>
  /\ origin = <<>>
  /\ n = 0
  /\ raised = "none"

\* the engines as written: none raises
Init == InitWith({{}})

\* the engines replaced by implementations that may raise
InitEngineFaults == InitWith(SUBSET EngineFunctions)

\* ---------------------------------------------------------------- the pool

\* variant: the task is read from the queue and left in it
queue_peeked(q) == q

\* variant: the pool hands out the newest queued task
newest_task(q) == q[Len(q)]

\* variant: a worker is sent its next task only once every result that has
\* arrived has been taken by the progress bar
idle_when_results_taken(run, w) == run[w] = {} /\ Len(completed) <= n

\* variant: a worker is sent a task whether or not it runs one
idle_always(run, w) == TRUE

\* a worker asks for a task only when it runs none
idle(run, w) == run[w] = {}

\* the task the pool hands out next, and the queue it leaves
next_task(q) == Head(q)

queue_after_take(q) == Tail(q)

\* `with MPIPoolExecutor() as executor`: the pool exists, no work issued yet
enter_pool ==
  /\ pc = "main"
  /\ pc' = "with"
  /\ UNCHANGED <<engines, work_list, objects, faults, size, futures, queue, running,
                 trace, completed, popped, results, origin, n, raised>>

\* executor.map(perform_work, work_list): every item is submitted at once,
\* in order; tqdm wraps the iterator map returns (nothing is iterated yet)
map_work_list ==
  /\ pc = "with"
  /\ futures' = [i \in 1..Len(work_list) |->
                   [arg |-> task_argument(objects, work_list, i), state |-> "PENDING",
                    worker |-> -1, outcome |-> NoOutcome]]
  /\ queue' = [i \in 1..Len(work_list) |-> i]
  /\ pc' = "exit_with"
  /\ UNCHANGED <<engines, work_list, objects, faults, size, running, trace, completed,
                 popped, results, origin, n, raised>>

\* the pool sends the next queued task to a worker that runs none
assign(w) ==
  /\ queue # <<>>
  /\ idle(running, w)
  /\ LET i == next_task(queue)
     IN /\ running' = [running EXCEPT ![w] = @ \cup {i}]
        /\ futures' = [futures EXCEPT ![i].state = "RUNNING", ![i].worker = w]
  /\ queue' = queue_after_take(queue)
  /\ UNCHANGED <<engines, work_list, objects, faults, size, pc, trace, completed,
                 popped, results, origin, n, raised>>

\* variant: the worker shares the caller's memory (a thread pool), so
\* instructions.update(...) changes the caller's object
objects_shared_with_worker(objs, ref, outcome) ==
  IF outcome.kind = "result" THEN [objs EXCEPT ![ref] = outcome.value] ELSE objs

\* instructions.update(...) runs in the worker, on the dict it unpickled from
\* the task message: the caller's objects are in another process
objects_after_task(objs, ref, outcome) == objs

\* worker w runs perform_work on a task it holds and sends the outcome back
run_task(w, i) ==
  /\ i \in running[w]
  /\ LET outcome == perform_work(futures[i].arg, faults)
     IN /\ futures' = [futures EXCEPT ![i].state = "FINISHED", ![i].outcome = outcome]
        /\ objects' = objects_after_task(objects, work_list[i], outcome)
        /\ trace' = trace_after_task(trace, trace_line(futures[i].arg, w, size),
                                     outcome)
  /\ engines' = engines_after_lookup(engines, futures[i].arg["engine"])
  /\ running' = [running EXCEPT ![w] = @ \ {i}]
  /\ completed' = Append(completed, i)
  /\ UNCHANGED <<work_list, faults, size, pc, queue, popped, results, origin, n,
                 raised>>

\* ------------------------------------------------------- the main program

\* variant: shutdown(wait=False)
shutdown_without_wait(fs) == TRUE

\* executor.shutdown(wait=True) on leaving the `with` block returns once
\* every submitted task has finished
shutdown_returns(fs) == \A i \in 1..Len(fs) : fs[i].state = "FINISHED"

exit_with ==
  /\ pc = "exit_with"
  /\ shutdown_returns(futures)
  /\ pc' = "list"
  /\ UNCHANGED <<engines, work_list, objects, faults, size, futures, queue, running,
                 trace, completed, popped, results, origin, n, raised>>

\* variant: map(..., unordered=True), results taken as they complete
pop_future_as_completed(count, arrival) == arrival[count + 1]

\* result_iterator of map: futures.reverse(); futures.pop().result(), so the
\* futures are taken in submission order
pop_future(count, arrival) == count + 1

\* variant: the bar is advanced by hand as well as by the iteration
tqdm_counts_twice(count) == count + 2

\* tqdm counts the item it has just taken from the iterator
tqdm_after_item(count) == count + 1

\* tqdm(..., total=len(work_list))
tqdm_total == Len(work_list)

\* one step of list(results): tqdm takes the next result from the iterator;
\* result() returns the task's value or re-raises the task's exception
next_result ==
  /\ pc = "list"
  /\ popped < Len(futures)
  /\ LET i == pop_future(popped, completed)
     IN /\ futures[i].state = "FINISHED"
        /\ IF futures[i].outcome.kind = "result"
             THEN /\ results' = Append(results, futures[i].outcome.value)
                  /\ origin' = Append(origin, i)
                  /\ n' = tqdm_after_item(n)
                  /\ UNCHANGED <<pc, raised>>
             ELSE /\ raised' = futures[i].outcome.exc
                  /\ pc' = "raised"
                  /\ UNCHANGED <<results, origin, n>>
  /\ popped' = popped + 1
  /\ UNCHANGED <<engines, work_list, objects, faults, size, futures, queue, running,
                 trace, completed>>

\* print(list(results)): the iterator is exhausted, the list is complete
print_results ==
  /\ pc = "list"
  /\ popped = Len(futures)
  /\ pc' = "done"
  /\ UNCHANGED <<engines, work_list, objects, faults, size, futures, queue, running,
                 trace, completed, popped, results, origin, n, raised>>

Next ==
  \/ enter_pool
  \/ map_work_list
  \/ \E w \in Ranks : assign(w)
  \/ \E w \in Ranks : \E i \in Tasks : run_task(w, i)
  \/ exit_with
  \/ next_result
  \/ print_results

Spec == Init /\ [][Next]_vars

\* the same program over engines that may raise
SpecEngineFaults == InitEngineFaults /\ [][Next]_vars

\* ----------------------------------------------------------- properties

Terminated == pc \in {"done", "raised"}

Items == 1..Len(work_list)

\* the dict r carries engine and benchmark of the dict d
SamePair(r, d) ==
  /\ {"engine", "benchmark"} \subseteq DOMAIN r
  /\ r["engine"] = d["engine"]
  /\ r["benchmark"] = d["benchmark"]

\* the positions of the results that answer task i
ResultsOf(i) == {k \in DOMAIN results : origin[k] = i}

CarriesOutput(r) == "output" \in DOMAIN r

CarriesError(r, e) == "error" \in DOMAIN r /\ r["error"] = e

UnknownEngine(i) == futures[i].arg["engine"] \notin DOMAIN ENGINES

EngineFaults(i) == ~UnknownEngine(i) /\ ENGINES[futures[i].arg["engine"]] \in faults

Position(seq, x) == CHOOSE k \in DOMAIN seq : seq[k] = x

\* C1: when the run has ended, every submitted item is represented in exactly
\* one returned result, which carries an output or an error (the model has no
\* worker loss, so no run ends with a fatal error of the pool)
C1_EveryItemInExactlyOneResult ==
  Terminated =>
    \A i \in Items :
      /\ Cardinality(ResultsOf(i)) = 1
      /\ \A k \in ResultsOf(i) :
           CarriesOutput(results[k]) \/ "error" \in DOMAIN results[k]

\* C2: a run of a non-empty list ends by returning as many results as items
\* were submitted, also when some task failed
C2_FullResultSequence ==
  (Terminated /\ Len(work_list) > 0) =>
    (pc = "done" /\ Len(results) = Len(work_list))

C4_UnknownEngineIsolated ==
  /\ \A i \in Tasks :
       (futures[i].state = "FINISHED" /\ UnknownEngine(i)) =>
         /\ futures[i].outcome.kind = "result"
         /\ CarriesError(futures[i].outcome.value, "UnknownEngineError")
  /\ (Terminated /\ faults = {}) =>
       \A i \in Tasks :
         ~UnknownEngine(i) =>
           \E k \in ResultsOf(i) : CarriesOutput(results[k])

\* C5: a task whose engine fails finishes with a result carrying
\* EngineExecutionError, and no exception reaches the caller of the run
C5_EngineFailureWrapped ==
  /\ \A i \in Tasks :
       (futures[i].state = "FINISHED" /\ EngineFaults(i)) =>
         /\ futures[i].outcome.kind = "result"
         /\ CarriesError(futures[i].outcome.value, "EngineExecutionError")
  /\ ((\A i \in Tasks : ~UnknownEngine(i)) => raised = "none")

\* C6 as stated: the returned results are in the order their tasks completed
C6_CompletionOrder ==
  pc = "done" =>
    \A k1, k2 \in DOMAIN results :
      k1 < k2 => Position(completed, origin[k1]) < Position(completed, origin[k2])

\* C6 as the code has it: the returned results are in submission order,
\* whatever order the tasks completed in
C6_SubmissionOrder ==
  \A k1, k2 \in DOMAIN results : k1 < k2 => origin[k1] < origin[k2]

C6_CompletedOutOfOrder ==
  /\ pc = "done"
  /\ Len(results) >= 2
  /\ completed[1] # 1

\* C7: the caller has the results, or is taking them, only when no submitted
\* item is queued or in flight and every task has finished
C7_CallerBlockedUntilDone ==
  (pc \in {"list", "done", "raised"} \/ results # <<>>) =>
    /\ queue = <<>>
    /\ \A w \in Ranks : running[w] = {}
    /\ Len(futures) = Len(work_list)
    /\ \A i \in Tasks : futures[i].state = "FINISHED"

C7_CallerResumed ==
  /\ pc = "list"
  /\ Len(work_list) >= 2
  /\ size >= 2

\* perform_work applied to the items one after another in the caller's own
\* process, from item k on: the list it returns or the exception it raises
RECURSIVE sequential(_, _, _)
sequential(objs, k, refs) ==
  IF k > Len(work_list)
    THEN [kind |-> "done", exc |-> "none",
          results |-> [j \in 1..Len(refs) |-> objs[refs[j]]]]
    ELSE LET out == perform_work(objs[work_list[k]], faults)
         IN IF out.kind = "exception"
              THEN [kind |-> "raised", exc |-> out.exc, results |-> <<>>]
              ELSE sequential([objs EXCEPT ![work_list[k]] = out.value], k + 1,
                              Append(refs, work_list[k]))

Occurrences(seq, x) == Cardinality({k \in DOMAIN seq : seq[k] = x})

SameBag(s, t) ==
  /\ Len(s) = Len(t)
  /\ \A k \in DOMAIN s : Occurrences(s, s[k]) = Occurrences(t, s[k])

\* C8: with a pool of one worker the run ends as the sequential application
\* of perform_work to the items ends: with the same results (as a multiset),
\* or with the same exception
C8_PoolOfOneIsSequential ==
  (size = 1 /\ Terminated) =>
    LET ref == sequential(sample, 1, <<>>)
    IN \/ pc = "done" /\ ref.kind = "done" /\ SameBag(results, ref.results)
       \/ pc = "raised" /\ ref.kind = "raised" /\ raised = ref.exc

C8_PoolOfOneDone ==
  /\ size = 1
  /\ pc = "done"
  /\ \E i, j \in Items : work_list[i] # work_list[j]

\* C9: every item of the caller's list keeps its engine, its benchmark and
\* its field set throughout the run
C9_CallerItemsUnchanged ==
  \A i \in Items :
    /\ DOMAIN objects[work_list[i]] = {"engine", "benchmark"}
    /\ SamePair(objects[work_list[i]], sample[work_list[i]])

C9_RepeatedItemExecuted ==
  \E i, j \in Tasks :
    /\ i # j
    /\ work_list[i] = work_list[j]
    /\ futures[i].state = "FINISHED"
    /\ futures[i].outcome.kind = "result"
    /\ CarriesOutput(futures[i].outcome.value)
    /\ futures[j].state = "PENDING"

\* C10: a worker holds at most one task that it has received and not finished
C10_OneTaskPerWorker == \A w \in Ranks : Cardinality(running[w]) <= 1

C10_BusyWorkerWhileQueued ==
  /\ queue # <<>>
  /\ \A w \in Ranks : running[w] # {}
  /\ size >= 2

\* the workers that hold task i
Holders(i) == {w \in Ranks : i \in running[w]}

InQueue(i) == \E k \in DOMAIN queue : queue[k] = i

\* C11: a submitted item is held by at most one worker, and an item a worker
\* has claimed is no longer in the queue; the queue holds no item twice, and
\* an item a worker has finished is held by no worker and is not queued
C11_ClaimedByExactlyOneWorker ==
  \A i \in Tasks :
    /\ Cardinality(Holders(i)) <= 1
    /\ Cardinality({k \in DOMAIN queue : queue[k] = i}) <= 1
    /\ Holders(i) # {} => (~InQueue(i) /\ futures[i].state = "RUNNING")
    /\ futures[i].state = "FINISHED" => (~InQueue(i) /\ Holders(i) = {})
    /\ futures[i].state = "PENDING" <=> InQueue(i)

C11_TwoWorkersPulled ==
  /\ size >= 2
  /\ \E v, w \in Ranks : v # w /\ running[v] # {} /\ running[w] # {}
  /\ queue # <<>>

\* the tasks worker w receives in a step
Received(w) == running'[w] \ running[w]

\* the queue holds exactly the tasks not yet handed out, in submission order
QueueIsUnassignedSuffix ==
  \E k \in 0..Len(futures) :
    /\ queue = [j \in 1..(Len(futures) - k) |-> k + j]
    /\ \A i \in Tasks : futures[i].state = "PENDING" <=> i > k

\* C12: a worker receives a task only when it runs none; the task is the head
\* of the queue, which is the earliest submitted task not yet handed out; no
\* task has a worker before it is claimed; and while a task is queued every
\* worker that runs none can take it
C12_PullBasedAssignment ==
  /\ [][\A w \in Ranks : \A i \in Received(w) :
          /\ running[w] = {}
          /\ queue # <<>> /\ i = Head(queue)
          /\ \A j \in Tasks : (futures[j].state = "PENDING") <=> (j >= i)
          /\ futures[i].worker = -1 /\ futures'[i].worker = w]_vars
  /\ [](\A i \in Tasks : futures[i].state = "PENDING" => futures[i].worker = -1)
  /\ [](\A w \in Ranks : (queue # <<>> /\ running[w] = {}) => ENABLED assign(w))
  /\ []QueueIsUnassignedSuffix

C12_SecondPull ==
  /\ size >= 2
  /\ \E w \in Ranks : running[w] = {} /\ \E i \in Tasks : futures[i].worker = w
  /\ \E w \in Ranks : running[w] # {}
  /\ queue # <<>>

\* the coordinator's state, read off the program: the pool exists from the
\* entry of the `with` block and is torn down when the block is left
Coordinator ==
  CASE pc = "main" -> "NoPool"
    [] pc = "with" -> "Idle"
    [] pc = "exit_with" /\ queue # <<>> -> "Dispatching"
    [] pc = "exit_with" /\ queue = <<>> -> "Draining"
    [] OTHER -> "Completed"

Stage(c) ==
  CASE c = "NoPool" -> 0
    [] c = "Idle" -> 1
    [] c = "Dispatching" -> 2
    [] c = "Draining" -> 3
    [] c = "Completed" -> 4

Outstanding == {i \in Tasks : futures[i].state # "FINISHED"}

\* C13: the coordinator only moves forward through Idle, Dispatching,
\* Draining, Completed; no work is issued while it is Idle; it is Completed
\* only when no task is outstanding or queued; and no step taken in Draining
\* or Completed gives a worker a task
C13_CoordinatorMovesForward ==
  /\ [][Stage(Coordinator') >= Stage(Coordinator)]_vars
  /\ [](Coordinator = "Idle" => (futures = <<>> /\ \A w \in Ranks : running[w] = {}))
  /\ [](Coordinator = "Completed" => (Outstanding = {} /\ queue = <<>>))
  /\ [][(Stage(Coordinator) >= Stage("Draining")) =>
          (\A w \in Ranks : Received(w) = {})]_vars

C13_DrainingWithTaskInFlight ==
  /\ Coordinator = "Draining"
  /\ Outstanding # {}
  /\ Cardinality({i \in Tasks : futures[i].state = "FINISHED"}) >= 1

C15_NoBackPressure ==
  /\ [](\A w \in Ranks :
          /\ (queue # <<>> /\ running[w] = {}) => ENABLED assign(w)
          /\ \A i \in running[w] : ENABLED run_task(w, i))
  /\ [][(\E w \in Ranks : Received(w) # {}) \/ completed' # completed => n' = n]_vars

C15_AssignableWithNothingReported ==
  /\ n = 0
  /\ completed # <<>>
  /\ queue # <<>>
  /\ \E w \in Ranks : running[w] = {}

\* C16: the k-th trace line belongs to the k-th task execution: it carries
\* that task's benchmark and engine, the rank of the worker that ran it, the
\* pool size and that worker's host; there are as many lines as executions;
\* and the step that writes the line takes no task from the queue and
\* finishes its task with the outcome of perform_work
C16_OneTraceLinePerExecution ==
  /\ [](Len(trace) = Len(completed))
  /\ [](\A k \in DOMAIN trace :
          LET f == futures[completed[k]]
          IN /\ DOMAIN trace[k] = {"benchmark", "engine", "rank", "size", "name"}
             /\ trace[k].benchmark = f.arg["benchmark"]
             /\ trace[k].engine = f.arg["engine"]
             /\ trace[k].rank = f.worker /\ f.worker \in Ranks
             /\ trace[k].size = size
             /\ trace[k].name = Get_processor_name(f.worker))
  /\ [][trace' # trace =>
          /\ Len(trace') = Len(trace) + 1
          /\ queue' = queue
          /\ LET i == completed'[Len(completed')]
             IN futures'[i].outcome = perform_work(futures[i].arg, faults)]_vars

C16_TwoWorkersTraced ==
  /\ Len(trace) >= 2
  /\ \E j, k \in DOMAIN trace : trace[j].rank # trace[k].rank

\* C17: the dict bound to ENGINES holds the three engines from before the
\* pool exists until the run has ended; no step adds, removes or rebinds a
\* key, a lookup that fails included
C17_RegistryFixed ==
  /\ DOMAIN engines = {"ILAMB", "PMP", "ESMValTool"}
  /\ \A e \in DOMAIN engines : e \in DOMAIN ENGINES /\ engines[e] = ENGINES[e]

C17_LookupsDone ==
  /\ \E i \in Tasks : futures[i].state = "FINISHED" /\ UnknownEngine(i)
  /\ \E i \in Tasks : futures[i].state = "FINISHED" /\ ~UnknownEngine(i)

EveryTaskSucceeded ==
  \A i \in Tasks : futures[i].state = "FINISHED" /\ futures[i].outcome.kind = "result"

\* C18: when every task has succeeded and the run has ended, the run has
\* returned one result per submitted item and the i-th result carries the
\* engine and the benchmark of the i-th item of the caller's list, with an
\* output
C18_ResultsInSubmissionPositions ==
  (Terminated /\ EveryTaskSucceeded) =>
    /\ pc = "done"
    /\ Len(results) = Len(work_list)
    /\ \A i \in Items :
         /\ SamePair(results[i], objects[work_list[i]])
         /\ CarriesOutput(results[i])

C18_DistinctItemsCompletedOutOfOrder ==
  /\ pc = "done"
  /\ Len(work_list) >= 2
  /\ work_list[1] # work_list[2]
  /\ completed[1] # 1

\* C19: while a task is queued or in flight nothing has been taken from the
\* result iterator and tqdm's count is 0; a result is taken only when every
\* item has been submitted, every task has finished and the `with` block has
\* been left
C19_NothingReportedBeforeShutdown ==
  /\ (queue # <<>> \/ \E w \in Ranks : running[w] # {}) =>
       (n = 0 /\ popped = 0 /\ results = <<>>)
  /\ (n > 0 \/ popped > 0) =>
       /\ Len(futures) = Len(work_list)
       /\ Outstanding = {}
       /\ pc \notin {"main", "with", "exit_with"}
  /\ pc \in {"main", "with", "exit_with"} => n = 0

C19_AllFinishedNothingReported ==
  /\ pc = "exit_with"
  /\ Len(futures) >= 2
  /\ Outstanding = {}
  /\ n = 0

\* C20: every task a worker has run has its trace line, at the position of
\* its execution, also when the engine was not in ENGINES and when the engine
\* raised
C20_TraceBeforeLookup ==
  \A i \in Tasks :
    futures[i].state = "FINISHED" =>
      \E k \in DOMAIN trace :
        /\ k = Position(completed, i)
        /\ trace[k].engine = futures[i].arg["engine"]
        /\ trace[k].benchmark = futures[i].arg["benchmark"]

C20_FailedTasksTraced ==
  /\ \E i \in Tasks : futures[i].state = "FINISHED" /\ UnknownEngine(i)
  /\ \E i \in Tasks : futures[i].state = "FINISHED" /\ EngineFaults(i)
  /\ Len(trace) >= 2

====
